---- MODULE Spec2Model ----
(***************************************************************************)
(* StardustLamentEngine: one particle (CelestialPlume) moving among fixed  *)
(* gravity anchors (StellarPearl) inside a spherical domain (AstralCanopy) *)
(* driven by StellarCourtyard.run_simulation / OrbitalLoom.step.           *)
(*                                                                         *)
(* Numbers: the program computes in float64.  Lengths, velocities,         *)
(* accelerations, forces, the gravitational constant and the time step     *)
(* are fixed-point integers with FP units per 1.0; masses, step indices    *)
(* and the speed of light are plain integers.  Division truncates toward   *)
(* zero.                                                                   *)
(***************************************************************************)
EXTENDS Integers, Sequences, FiniteSets, TLC

\* ------------------------------------------------------------------ bounds
\* largest number of steps one run call may ask for
MaxSteps == 62
\* largest number of anchors added to one domain
MaxAnchors == 2
\* largest number of run calls in one behaviour
MaxRuns == 2
\* largest number of configuration calls (set_constants, build_galaxy,
\* add_stellar_pearl, set_celestial_plume, set_time_step) in one behaviour
MaxCalls == 4
\* calls made on a GravityLoom used on its own
MaxQueries == 1

\* ------------------------------------------------------- number representation
\* fixed-point units per 1.0
FP == 1000

Abs(a) == IF a < 0 THEN -a ELSE a

\* a / b truncated toward zero (b # 0)
Quot(a, b) ==
    IF (a >= 0) = (b > 0) THEN Abs(a) \div Abs(b) ELSE -(Abs(a) \div Abs(b))

\* product of two fixed-point numbers
FMul(a, b) == Quot(a * b, FP)

\* quotient of two fixed-point numbers
FDiv(a, b) == Quot(a * FP, b)

RECURSIVE SqrtSearch(_, _, _)
SqrtSearch(n, lo, hi) ==
    IF lo >= hi THEN lo
    ELSE LET mid == (lo + hi + 1) \div 2
         IN  IF mid * mid <= n THEN SqrtSearch(n, mid, hi)
             ELSE SqrtSearch(n, lo, mid - 1)

\* floor of the square root of n >= 0
ISqrt(n) == SqrtSearch(n, 0, 46340)

\* ------------------------------------------------------------------ Vector3D
Vector3D(x, y, z) == <<x, y, z>>

ZeroVec == Vector3D(0, 0, 0)

VAdd(a, b) == Vector3D(a[1] + b[1], a[2] + b[2], a[3] + b[3])

VSub(a, b) == Vector3D(a[1] - b[1], a[2] - b[2], a[3] - b[3])

\* vector times a fixed-point scalar
VMul(a, s) == Vector3D(FMul(a[1], s), FMul(a[2], s), FMul(a[3], s))

\* vector times a plain integer
VMulInt(a, k) == Vector3D(a[1] * k, a[2] * k, a[3] * k)

\* vector divided by a plain non-zero integer (the caller guards zero)
VDivInt(a, k) == Vector3D(Quot(a[1], k), Quot(a[2], k), Quot(a[3], k))

Magnitude(a) == ISqrt(a[1] * a[1] + a[2] * a[2] + a[3] * a[3])

Normalize(a) ==
    LET mag == Magnitude(a)
    IN  IF mag = 0 THEN ZeroVec
        ELSE Vector3D(FDiv(a[1], mag), FDiv(a[2], mag), FDiv(a[3], mag))

\* ---------------------------------------------------------------- GravityLoom
\* GravityLoom.GRAVITY_CONSTANT = 0.1
GRAVITY_CONSTANT == 100
\* GravityLoom.STARDUST_LIGHT_SPEED (plain integer, m/s)
STARDUST_LIGHT_SPEED == 299792458
\* GravityLoom.GRAVITY_FORCE_MIN_DISTANCE = 1e-3
GRAVITY_FORCE_MIN_DISTANCE == 1

\* variant: the minimum distance is stored as given
GravityLoomUnfloored(gravity_constant, speed_of_light, gravity_force_min_distance, enable_perturbations, enable_relativistic_corrections, integration_method) ==
    [ gravity_constant |->
          IF gravity_constant <= 0 THEN 100 ELSE gravity_constant,
      speed_of_light |->
          IF speed_of_light <= 0 THEN 299792458 ELSE speed_of_light,
      gravity_force_min_distance |-> gravity_force_min_distance,
      enable_perturbations |-> enable_perturbations,
      enable_relativistic_corrections |-> enable_relativistic_corrections,
      integration_method |-> integration_method,
      perturbation_scale |-> 1000 ]

\* variant: the gravitational constant is stored as given
GravityLoomAsGiven(gravity_constant, speed_of_light, gravity_force_min_distance, enable_perturbations, enable_relativistic_corrections, integration_method) ==
    [ gravity_constant |-> gravity_constant,
      speed_of_light |->
          IF speed_of_light <= 0 THEN 299792458 ELSE speed_of_light,
      gravity_force_min_distance |->
          IF gravity_force_min_distance <= 0 THEN 1 ELSE gravity_force_min_distance,
      enable_perturbations |-> enable_perturbations,
      enable_relativistic_corrections |-> enable_relativistic_corrections,
      integration_method |-> integration_method,
      perturbation_scale |-> 1000 ]

\* GravityLoom.__init__ with every argument given
GravityLoomWith(gravity_constant, speed_of_light, gravity_force_min_distance, enable_perturbations, enable_relativistic_corrections, integration_method) ==
    [ gravity_constant |->
          IF gravity_constant <= 0 THEN GRAVITY_CONSTANT ELSE gravity_constant,
      speed_of_light |->
          IF speed_of_light <= 0 THEN STARDUST_LIGHT_SPEED ELSE speed_of_light,
      gravity_force_min_distance |->
          IF gravity_force_min_distance <= 0 THEN GRAVITY_FORCE_MIN_DISTANCE
          ELSE gravity_force_min_distance,
      enable_perturbations |-> enable_perturbations,
      enable_relativistic_corrections |-> enable_relativistic_corrections,
      integration_method |-> integration_method,
      perturbation_scale |-> FP ]

\* GravityLoom.__init__ with the default flags and integration method
GravityLoom(gravity_constant, speed_of_light, gravity_force_min_distance) ==
    GravityLoomWith(gravity_constant, speed_of_light, gravity_force_min_distance,
                    TRUE, FALSE, "rk4")

\* numerator 7.5e15 * 1000 and denominator 6.674e-11 * 1.989e30 of the radius
\* relation, reduced to four significant digits: 0.0565 = 565 / 10000
OortNum == 565
OortDen == 10000

\* radius = R_SUN_OORT_REF * (G * central_mass * 1000) / (G_STANDARD * M_SUN)
calculate_oort_cloud_radius(g, central_mass) ==
    Quot(g.gravity_constant * central_mass * OortNum, OortDen)

\* 1 + 3 G M / (d c^2); the velocity term is zero
RelativisticFactor(g, mass, distance) ==
    LET c == g.speed_of_light
    IN  IF c > 46340 THEN FP
        ELSE FP + Quot(Quot(3 * g.gravity_constant * mass * FP, c * c), distance)

\* calculate_gravity_force divides by distance**2 and, with the relativistic
\* correction, by distance * speed_of_light**2: ZeroDivisionError when one is 0
ForceRaises(g, stellar, plume) ==
    /\ ~(Magnitude(VSub(plume.position, stellar.position))
            < g.gravity_force_min_distance)
    /\ \/ Magnitude(VSub(plume.position, stellar.position)) = 0
       \/ g.enable_relativistic_corrections /\ g.speed_of_light = 0

\* variant: the force points from the source to the body it acts on
calculate_gravity_force_outward(g, stellar, plume) ==
    LET r_vec == VSub(plume.position, stellar.position)
        distance == Magnitude(r_vec)
    IN  IF distance < g.gravity_force_min_distance THEN ZeroVec
        ELSE LET newton == FDiv(g.gravity_constant * stellar.mass * plume.mass,
                                FMul(distance, distance))
                 force_magnitude ==
                     IF g.enable_relativistic_corrections
                     THEN FMul(newton, RelativisticFactor(g, stellar.mass, distance))
                     ELSE newton
             IN  VMul(Normalize(r_vec), force_magnitude)

\* force of body `stellar` on body `plume`
calculate_gravity_force(g, stellar, plume) ==
    LET r_vec == VSub(plume.position, stellar.position)
        distance == Magnitude(r_vec)
    IN  IF distance < g.gravity_force_min_distance THEN ZeroVec
        ELSE LET newton == FDiv(g.gravity_constant * stellar.mass * plume.mass,
                                FMul(distance, distance))
                 force_magnitude ==
                     IF g.enable_relativistic_corrections
                     THEN FMul(newton, RelativisticFactor(g, stellar.mass, distance))
                     ELSE newton
             IN  VMul(Normalize(r_vec), -force_magnitude)

calculate_perturbation_force(g, primary, plume, perturber) ==
    IF ~g.enable_perturbations THEN ZeroVec
    ELSE LET direct_force == calculate_gravity_force(g, perturber, plume)
             primary_force == calculate_gravity_force(g, perturber, primary)
             mass_ratio == IF primary.mass > 0
                           THEN Quot(plume.mass * FP, primary.mass) ELSE 0
             perturbation == VSub(direct_force, VMul(primary_force, mass_ratio))
         IN  VMul(perturbation, g.perturbation_scale)

RECURSIVE SumDirect(_, _, _, _)
SumDirect(g, point, sources, k) ==
    IF k = 0 THEN ZeroVec
    ELSE VAdd(SumDirect(g, point, sources, k - 1),
              calculate_gravity_force(g, sources[k], point))

RECURSIVE SumPerturbation(_, _, _, _)
\* pairs (i, j), i # j, enumerated as k = (i-1)*n + j for k = 1 .. n*n
SumPerturbation(g, point, sources, k) ==
    IF k = 0 THEN ZeroVec
    ELSE LET n == Len(sources)
             i == ((k - 1) \div n) + 1
             j == ((k - 1) % n) + 1
             rest == SumPerturbation(g, point, sources, k - 1)
         IN  IF i = j THEN rest
             ELSE VAdd(rest, calculate_perturbation_force(g, sources[i], point,
                                                          sources[j]))

\* the summed force of calculate_total_acceleration, before the division
TotalForce(g, point, gravity_sources) ==
    LET direct == SumDirect(g, point, gravity_sources, Len(gravity_sources))
    IN  IF g.enable_perturbations /\ Len(gravity_sources) >= 2
        THEN VAdd(direct, SumPerturbation(g, point, gravity_sources,
                              Len(gravity_sources) * Len(gravity_sources)))
        ELSE direct

\* Vector3D.__truediv__ raises ValueError on a zero scalar
DivisionRaises(scalar) == scalar = 0

\* total_force / point.mass (point.mass # 0; a zero mass raises, see DivisionRaises)
calculate_total_acceleration(g, point, gravity_sources) ==
    VDivInt(TotalForce(g, point, gravity_sources), point.mass)

\* CelestialPlume.DEFAULT_MASS = 1.0
DEFAULT_MASS == 1

\* CelestialPlume.__init__: the mass handed to StardustCore.__init__ is stored as
\* given; the reset to DEFAULT_MASS rebinds the constructor's local name only
CelestialPlume(position, velocity, mass) ==
    [ position |-> position, velocity |-> velocity, mass |-> mass ]

\* the trial point CelestialPlume(r1 + v * h, v1 + a * h, mass = point.mass)
TrialPoint(point, v, a, h) ==
    CelestialPlume(VAdd(point.position, VMul(v, h)),
                   VAdd(point.velocity, VMul(a, h)), point.mass)

\* new_position and new_velocity from the four stage velocities and accelerations
RK4Combine(point, time_step, v2, v3, v4, a1, a2, a3, a4) ==
    [ position |->
          VAdd(point.position,
               VMul(VAdd(VAdd(point.velocity, VMulInt(v2, 2)),
                         VAdd(VMulInt(v3, 2), v4)),
                    Quot(time_step, 6))),
      velocity |->
          VAdd(point.velocity,
               VMul(VAdd(VAdd(a1, VMulInt(a2, 2)), VAdd(VMulInt(a3, 2), a4)),
                    Quot(time_step, 6))) ]

\* k4: the trial point p4 is known
RK4Stage4(g, point, gravity_sources, time_step, v2, v3, a1, a2, a3, p4) ==
    RK4Combine(point, time_step, v2, v3, p4.velocity, a1, a2, a3,
               calculate_total_acceleration(g, p4, gravity_sources))

\* k3: the trial point p3 and its acceleration a3 are known
RK4Stage3(g, point, gravity_sources, time_step, v2, a1, a2, p3, a3) ==
    RK4Stage4(g, point, gravity_sources, time_step, v2, p3.velocity, a1, a2, a3,
              TrialPoint(point, p3.velocity, a3, time_step))

\* k2: the trial point p2 and its acceleration a2 are known
RK4Stage2(g, point, gravity_sources, time_step, a1, p2, a2) ==
    RK4Stage3(g, point, gravity_sources, time_step, p2.velocity, a1, a2,
              TrialPoint(point, p2.velocity, a2, Quot(time_step, 2)),
              calculate_total_acceleration(
                  g, TrialPoint(point, p2.velocity, a2, Quot(time_step, 2)),
                  gravity_sources))

\* k1: the acceleration a1 at the point is known
RK4Stage1(g, point, gravity_sources, time_step, a1) ==
    RK4Stage2(g, point, gravity_sources, time_step, a1,
              TrialPoint(point, point.velocity, a1, Quot(time_step, 2)),
              calculate_total_acceleration(
                  g, TrialPoint(point, point.velocity, a1, Quot(time_step, 2)),
                  gravity_sources))

runge_kutta_4_step(g, point, gravity_sources, time_step) ==
    RK4Stage1(g, point, gravity_sources, time_step,
              calculate_total_acceleration(g, point, gravity_sources))

\* the midpoint p2 is known
RK2Stage2(g, point, gravity_sources, time_step, p2) ==
    [ position |-> VAdd(point.position, VMul(p2.velocity, time_step)),
      velocity |-> VAdd(point.velocity,
                        VMul(calculate_total_acceleration(g, p2, gravity_sources),
                             time_step)) ]

runge_kutta_2_step(g, point, gravity_sources, time_step) ==
    RK2Stage2(g, point, gravity_sources, time_step,
              TrialPoint(point, point.velocity,
                         calculate_total_acceleration(g, point, gravity_sources),
                         Quot(time_step, 2)))

euler_step(g, point, gravity_sources, time_step) ==
    LET acceleration == calculate_total_acceleration(g, point, gravity_sources)
    IN  [ position |-> VAdd(point.position, VMul(point.velocity, time_step)),
          velocity |-> VAdd(point.velocity, VMul(acceleration, time_step)) ]

integrate_step(g, point, gravity_sources, time_step) ==
    IF g.integration_method = "rk4"
    THEN runge_kutta_4_step(g, point, gravity_sources, time_step)
    ELSE IF g.integration_method = "rk2"
    THEN runge_kutta_2_step(g, point, gravity_sources, time_step)
    ELSE euler_step(g, point, gravity_sources, time_step)

\* distance < 1e-10 : below one fixed-point unit
TooClose(distance) == distance < 1

\* influence G * M / r^2 of one source (r not TooClose)
Influence(g, point, source) ==
    LET distance == Magnitude(VSub(point.position, source.position))
    IN  FDiv(g.gravity_constant * source.mass, FMul(distance, distance))

\* influence >= threshold, the threshold given in millionths (1e-6 -> 1); a
\* threshold below the fixed-point unit is compared by cross-multiplication,
\* one of at least a unit with the influence itself
MeetsThreshold(g, point, source, threshold_millionths) ==
    LET distance == Magnitude(VSub(point.position, source.position))
        num == g.gravity_constant * source.mass
        d2 == FMul(distance, distance)
    IN  IF num <= 0 THEN FALSE
        ELSE IF threshold_millionths >= 1000
        THEN Influence(g, point, source) >= (threshold_millionths + 999) \div 1000
        ELSE (d2 * threshold_millionths) \div num < 1000000
             \/ ( (d2 * threshold_millionths) \div num = 1000000
                  /\ (d2 * threshold_millionths) % num = 0 )

RECURSIVE Qualifying(_, _, _, _, _)
\* the (source, influence) pairs kept by the loop, in list order
Qualifying(g, point, sources, threshold, k) ==
    IF k = 0 THEN << >>
    ELSE LET rest == Qualifying(g, point, sources, threshold, k - 1)
             s == sources[k]
         IN  IF TooClose(Magnitude(VSub(point.position, s.position))) THEN rest
             ELSE IF MeetsThreshold(g, point, s, threshold)
             THEN Append(rest, [source |-> s, influence |-> Influence(g, point, s)])
             ELSE rest

RECURSIVE SortDescending(_)
\* list.sort(key = influence, reverse = True): stable, equal keys keep their order
SortDescending(items) ==
    IF Len(items) = 0 THEN << >>
    ELSE LET best == CHOOSE i \in 1..Len(items) :
                        /\ \A j \in 1..Len(items) :
                               items[j].influence <= items[i].influence
                        /\ \A j \in 1..(i - 1) :
                               items[j].influence < items[i].influence
             others == [ k \in 1..(Len(items) - 1) |->
                             IF k < best THEN items[k] ELSE items[k + 1] ]
         IN  <<items[best]>> \o SortDescending(others)

\* variant: the qualifying sources are cut to max_sources in list order, unsorted
filter_gravity_sources_unsorted(g, point, gravity_sources, influence_threshold, max_sources) ==
    LET found == Qualifying(g, point, gravity_sources, influence_threshold,
                            Len(gravity_sources))
        kept == IF Len(found) <= max_sources THEN found
                ELSE SubSeq(found, 1, max_sources)
    IN  [ k \in 1..Len(kept) |-> kept[k].source ]

filter_gravity_sources_by_influence(g, point, gravity_sources, influence_threshold, max_sources) ==
    LET sorted == SortDescending(Qualifying(g, point, gravity_sources,
                                            influence_threshold,
                                            Len(gravity_sources)))
        kept == IF Len(sorted) <= max_sources THEN sorted
                ELSE SubSeq(sorted, 1, max_sources)
    IN  [ k \in 1..Len(kept) |-> kept[k].source ]

\* ------------------------------------------------------------ BoundaryAtrium
\* MirrorAbyssGate(radius) / PrismicEchoWall(radius): reflection_angle keeps its
\* default 0, the only value the courtyard ever constructs a boundary with
MirrorAbyssGate(boundary_radius) ==
    [ type |-> "infinite", boundary_radius |-> boundary_radius, reflection_angle |-> 0 ]

PrismicEchoWall(boundary_radius) ==
    [ type |-> "reflective", boundary_radius |-> boundary_radius, reflection_angle |-> 0 ]

\* variant: a particle exactly on the boundary does not collide
check_collision_beyond(b, point) ==
    LET position_magnitude == Magnitude(point.position)
    IN  IF position_magnitude > b.boundary_radius
        THEN [ collided |-> TRUE,
               position |-> VMul(point.position,
                                 FDiv(FMul(950, b.boundary_radius), position_magnitude)) ]
        ELSE [ collided |-> FALSE, position |-> point.position ]

\* variant: a position beyond the radius is pulled back in without reporting a
\* collision
check_collision_silent(b, point) ==
    LET position_magnitude == Magnitude(point.position)
    IN  IF position_magnitude > b.boundary_radius
        THEN [ collided |-> FALSE,
               position |-> VMul(point.position,
                                 FDiv(FMul(950, b.boundary_radius), position_magnitude)) ]
        ELSE [ collided |-> position_magnitude >= b.boundary_radius,
               position |-> point.position ]

\* BoundaryAtrium.check_collision: the verdict and the (possibly corrected) position
check_collision(b, point) ==
    LET position_magnitude == Magnitude(point.position)
    IN  IF position_magnitude > b.boundary_radius
        THEN LET correction_factor ==
                     FDiv(FMul(950, b.boundary_radius), position_magnitude)
             IN  [ collided |-> TRUE,
                   position |-> VMul(point.position, correction_factor) ]
        ELSE [ collided |-> position_magnitude >= b.boundary_radius,
               position |-> point.position ]

\* variant: the particle comes out on the far side with its velocity unchanged
MirrorHandleUndamped(b, point, dt) ==
    [ position |-> VMul(Normalize(point.position), -b.boundary_radius),
      velocity |-> point.velocity ]

\* variant: the particle comes out at 95% of the radius on the far side
MirrorHandleInset(b, point, dt) ==
    [ position |-> VAdd(VMul(Normalize(point.position), -FMul(b.boundary_radius, 950)),
                        VMul(Normalize(point.velocity), FMul(b.boundary_radius, 50))),
      velocity |-> VMul(point.velocity, 600) ]

\* MirrorAbyssGate.handle_collision, reflection_angle = 0
MirrorHandle(b, point, dt) ==
    LET velocity_direction == Normalize(point.velocity)
        warped_position_vector == VMul(Normalize(point.position),
                                       -b.boundary_radius)
        offset == VMul(velocity_direction, FMul(b.boundary_radius, 50))
    IN  [ position |-> VAdd(warped_position_vector, offset),
          velocity |-> VMul(point.velocity, 600) ]

\* PrismicEchoWall.handle_collision, reflection_angle = 0; dt is used as handed in
PrismicHandle(b, point, dt) ==
    LET current_speed == Magnitude(point.velocity)
        new_direction == Normalize(VSub(ZeroVec, point.position))
        new_velocity == VMul(new_direction, FMul(current_speed, 600))
    IN  [ position |-> VAdd(point.position, VMulInt(new_velocity, dt)),
          velocity |-> new_velocity ]

handle_collision(b, point, dt) ==
    IF b.type = "infinite" THEN MirrorHandle(b, point, dt)
    ELSE PrismicHandle(b, point, dt)

\* --------------------------------------------------------------- OrbitalLoom
\* steps a captured anchor stays out of the gravity sources
DormancySteps == 60
\* influence_threshold = 1e-6, in millionths
InfluenceThreshold == 1
\* max_sources = 10
MaxSources == 10

NoAnchor == 0

\* variant: the scan keeps the last anchor whatever its distance
LastAnchor(stellar_pearls, position) ==
    IF Len(stellar_pearls) = 0 THEN NoAnchor ELSE Len(stellar_pearls)

\* variant: the scan keeps the first anchor whatever its distance
FirstAnchor(stellar_pearls, position) ==
    IF Len(stellar_pearls) = 0 THEN NoAnchor ELSE 1

\* the first anchor of the list at the least distance (strict <), NoAnchor if none
ClosestAnchor(stellar_pearls, position) ==
    IF Len(stellar_pearls) = 0 THEN NoAnchor
    ELSE CHOOSE i \in 1..Len(stellar_pearls) :
            /\ \A j \in 1..Len(stellar_pearls) :
                   Magnitude(VSub(position, stellar_pearls[i].position))
                     <= Magnitude(VSub(position, stellar_pearls[j].position))
            /\ \A j \in 1..(i - 1) :
                   Magnitude(VSub(position, stellar_pearls[i].position))
                     < Magnitude(VSub(position, stellar_pearls[j].position))

\* variant: a dormant anchor is revived at the next gravity step
RevivedAtOnce(stellar, step) == [stellar EXCEPT !.perturbations = TRUE]

\* variant: a dormant anchor is revived ten steps sooner
RevivedSooner(stellar, step) ==
    IF ~stellar.perturbations /\ step - stellar.revival_rounds >= 50
    THEN [stellar EXCEPT !.perturbations = TRUE]
    ELSE stellar

\* the loop that rebuilds active_anchors: a dormant anchor is revived once
\* step - revival_rounds >= 60
Revived(stellar, step) ==
    IF ~stellar.perturbations /\ step - stellar.revival_rounds >= DormancySteps
    THEN [stellar EXCEPT !.perturbations = TRUE]
    ELSE stellar

\* variant: every anchor is handed on, dormant or not
ActiveAnchorsAll(stellar_pearls, step) ==
    [ k \in 1..Len(stellar_pearls) |-> Revived(stellar_pearls[k], step) ]

ActiveAnchors(stellar_pearls, step) ==
    SelectSeq([ k \in 1..Len(stellar_pearls) |-> Revived(stellar_pearls[k], step) ],
              LAMBDA sp : sp.perturbations)

\* variant: the capture branch does not record the step
CapturedUnstamped(stellar, step) == [stellar EXCEPT !.perturbations = FALSE]

\* variant: the step is recorded only when the anchor was active
CapturedOnce(stellar, step) ==
    [stellar EXCEPT !.perturbations = FALSE,
                    !.revival_rounds = IF stellar.perturbations THEN step ELSE @]

\* the anchor marked by the capture branch
Captured(stellar, step) ==
    [stellar EXCEPT !.perturbations = FALSE, !.revival_rounds = step]

EmptyResult(time_step) ==
    [ time_step |-> time_step, positions |-> << >>, velocities |-> << >>,
      captures |-> << >>, boundary_collisions |-> << >> ]

\* what a step did: its branch, what it raised, the anchors and the particle it
\* leaves, its result dictionary, the anchor it captured, the ids of the anchors
\* handed to influence filtering and of those the filter kept
Outcome(kind, raised, pearls, plume, time_step, collisions, captured, active, filtered) ==
    [ kind |-> kind, raised |-> raised, pearls |-> pearls, plume |-> plume,
      result |-> IF raised # "" THEN EmptyResult(time_step)
                 ELSE [ EmptyResult(time_step) EXCEPT
                          !.boundary_collisions = collisions,
                          !.positions = << plume.position >>,
                          !.velocities = << plume.velocity >> ],
      captured |-> captured, active |-> active, filtered |-> filtered,
      evaluated |-> kind = "gravity" ]

Ids(list) == [ k \in 1..Len(list) |-> list[k].id ]

\* the boundary branch of step (check_collision was true); the closing log line
\* reads current_closest_anchor_obj.name
BoundaryBranch(sim, stellar_pearls, plume, closest, handled) ==
    Outcome("boundary", IF closest = NoAnchor THEN "AttributeError" ELSE "",
            stellar_pearls,
            [plume EXCEPT !.position = handled.position,
                          !.velocity = handled.velocity],
            sim.time_step,
            << [ position |-> handled.position, velocity |-> handled.velocity ] >>,
            NoAnchor, << >>, << >>)

\* the capture branch: the nearest anchor is marked, gravity is skipped and the
\* closing position update of step still runs
CaptureBranch(sim, stellar_pearls, plume, step, closest) ==
    Outcome("capture", "",
            [stellar_pearls EXCEPT ![closest] = Captured(@, step)],
            [plume EXCEPT !.position =
                 VAdd(plume.position, VMul(plume.velocity, sim.time_step))],
            sim.time_step, << >>, closest, << >>, << >>)

\* variant: the position is the integrator's, advanced by the new velocity
GravityMoveOnTop(sim, revived, plume, active_anchors, filtered_anchors, new_velocity) ==
    Outcome("gravity", "", revived,
            [plume EXCEPT !.velocity = new_velocity,
                          !.position =
                              VAdd(integrate_step(sim.gravity_module, plume,
                                       filtered_anchors, sim.time_step).position,
                                   VMul(new_velocity, sim.time_step))],
            sim.time_step, << >>, NoAnchor, Ids(active_anchors),
            Ids(filtered_anchors))

\* the end of the gravity branch: the velocity is the integrator's, the position
\* is advanced from where it was by the new velocity
GravityMove(sim, revived, plume, active_anchors, filtered_anchors, new_velocity) ==
    Outcome("gravity", "", revived,
            [plume EXCEPT !.velocity = new_velocity,
                          !.position = VAdd(plume.position,
                                            VMul(new_velocity, sim.time_step))],
            sim.time_step, << >>, NoAnchor, Ids(active_anchors),
            Ids(filtered_anchors))

\* calculate_total_acceleration and integrate_step on the filtered sources
GravityFiltered(sim, revived, plume, active_anchors, filtered_anchors) ==
    IF DivisionRaises(plume.mass)
    THEN Outcome("gravity", "ValueError", revived, plume, sim.time_step, << >>,
                 NoAnchor, Ids(active_anchors), Ids(filtered_anchors))
    ELSE GravityMove(sim, revived, plume, active_anchors, filtered_anchors,
                     integrate_step(sim.gravity_module, plume, filtered_anchors,
                                    sim.time_step).velocity)

\* the gravity branch: revive, filter, accelerate, integrate
GravityBranch(sim, stellar_pearls, plume, step) ==
    GravityFiltered(sim,
        [ k \in 1..Len(stellar_pearls) |-> Revived(stellar_pearls[k], step) ],
        plume,
        ActiveAnchors(stellar_pearls, step),
        filter_gravity_sources_by_influence(
            sim.gravity_module, plume, ActiveAnchors(stellar_pearls, step),
            InfluenceThreshold, MaxSources))

\* step after the nearest-anchor scan and check_collision
StepChecked(sim, stellar_pearls, celestial_plume, step, closest, checked) ==
    IF checked.collided
    THEN BoundaryBranch(sim, stellar_pearls,
             [celestial_plume EXCEPT !.position = checked.position], closest,
             handle_collision(sim.boundary_effect,
                 [celestial_plume EXCEPT !.position = checked.position], step))
    ELSE IF closest = NoAnchor
    \* min_dist < current_closest_anchor_obj.orbit_radius on None
    THEN Outcome("none", "AttributeError", stellar_pearls, celestial_plume,
                 sim.time_step, << >>, NoAnchor, << >>, << >>)
    ELSE IF Magnitude(VSub(celestial_plume.position,
                           stellar_pearls[closest].position))
              < stellar_pearls[closest].orbit_radius
    THEN CaptureBranch(sim, stellar_pearls, celestial_plume, step, closest)
    ELSE GravityBranch(sim, stellar_pearls, celestial_plume, step)

\* OrbitalLoom.step(stellar_pearls, celestial_plume, step)
Step(sim, stellar_pearls, celestial_plume, step) ==
    StepChecked(sim, stellar_pearls, celestial_plume, step,
                ClosestAnchor(stellar_pearls, celestial_plume.position),
                check_collision(sim.boundary_effect, celestial_plume))

\* ------------------------------------------------- StellarPearl, AstralCanopy
\* Python's None
None == [ none |-> TRUE ]

\* float('inf')
Infinity == 2147483647

\* GravityLoom.calculate_orbital_escape_velocities: math.sqrt raises ValueError
\* on a negative argument
OrbitalRaises(g, mass, orbit_raduis) ==
    orbit_raduis > 0 /\ g.gravity_constant * mass < 0

calculate_orbital_escape_velocities(g, mass, orbit_raduis) ==
    IF orbit_raduis <= 0
    THEN [ orbit_velocity |-> Infinity, escape_velocity |-> Infinity ]
    ELSE [ orbit_velocity |->
               ISqrt(Quot(g.gravity_constant * mass * FP, orbit_raduis) * FP),
           escape_velocity |->
               ISqrt(Quot(2 * g.gravity_constant * mass * FP, orbit_raduis) * FP) ]

\* StellarPearl.__init__; id stands for the object's identity id(sp)
StellarPearl(id, name, position, mass, orbit_raduis, orbit_velocity, escape_velocity) ==
    [ id |-> id, name |-> name, position |-> position, mass |-> mass,
      orbit_radius |-> orbit_raduis, orbit_velocity |-> orbit_velocity,
      escape_velocity |-> escape_velocity,
      is_valid |-> ~(mass <= 0) /\ ~(orbit_velocity <= 0),
      perturbations |-> TRUE, revival_rounds |-> -1 ]

\* str.lower() on the boundary kinds that are exercised
Lower(boundary_type) ==
    IF boundary_type = "Reflective" THEN "reflective" ELSE boundary_type

\* AstralCanopy.__init__ raises ValueError
CanopyRaises(central_mass, boundary_type) ==
    \/ central_mass <= 0
    \/ Lower(boundary_type) \notin {"infinite", "reflective"}

\* AstralCanopy.__init__ (CanopyRaises is false)
AstralCanopy(gravity_loom, central_mass, boundary_type) ==
    LET radius == calculate_oort_cloud_radius(gravity_loom, central_mass)
    IN  [ central_mass |-> central_mass,
          oort_cloud_radius |-> radius,
          celestial_plume |-> None,
          boundary_type |-> Lower(boundary_type),
          boundary_effect |-> IF Lower(boundary_type) = "infinite"
                              THEN MirrorAbyssGate(radius)
                              ELSE PrismicEchoWall(radius),
          stellar_pearls |-> << >>,
          gravity_module |-> None ]

\* OrbitalLoom.__init__
OrbitalLoom(gravity_module, boundary_effect, time_step) ==
    [ gravity_module |-> gravity_module, boundary_effect |-> boundary_effect,
      time_step |-> time_step ]

\* ----------------------------------------------------------- StellarCourtyard
\* StellarCourtyard.__init__; next_id numbers the anchors created so far
NewCourtyard ==
    [ galaxy_model |-> None, gravity_module |-> None, boundary_effect |-> None,
      simulation_module |-> None,
      constants |-> [ gravity_constant |-> GRAVITY_CONSTANT,
                      speed_of_light |-> STARDUST_LIGHT_SPEED,
                      gravity_force_min_distance |-> GRAVITY_FORCE_MIN_DISTANCE ],
      time_step |-> 10,
      disabled_gravity_timers |-> << >>,
      next_id |-> 1 ]

\* variant: a constant that is set reaches the gravity module in use as well
set_constants_live(c, gravity_constant, speed_of_light, gravity_force_min_distance) ==
    LET g == IF c.gravity_module = None THEN None
             ELSE GravityLoom(
                 IF gravity_constant # << >> THEN gravity_constant[1]
                 ELSE c.gravity_module.gravity_constant,
                 IF speed_of_light # << >> THEN speed_of_light[1]
                 ELSE c.gravity_module.speed_of_light,
                 IF gravity_force_min_distance # << >> THEN gravity_force_min_distance[1]
                 ELSE c.gravity_module.gravity_force_min_distance)
    IN  [ c EXCEPT
            !.constants.gravity_constant =
                IF gravity_constant # << >> THEN gravity_constant[1] ELSE @,
            !.constants.speed_of_light =
                IF speed_of_light # << >> THEN speed_of_light[1] ELSE @,
            !.constants.gravity_force_min_distance =
                IF gravity_force_min_distance # << >>
                THEN gravity_force_min_distance[1] ELSE @,
            !.gravity_module = g,
            !.simulation_module =
                IF @ = None THEN @ ELSE [ @ EXCEPT !.gravity_module = g ],
            !.galaxy_model =
                IF @ = None THEN @ ELSE [ @ EXCEPT !.gravity_module = g ] ]

\* set_constants: an argument is a sequence, << >> for None, <<v>> for a value
set_constants(c, gravity_constant, speed_of_light, gravity_force_min_distance) ==
    [ c EXCEPT
        !.constants.gravity_constant =
            IF gravity_constant # << >> THEN gravity_constant[1] ELSE @,
        !.constants.speed_of_light =
            IF speed_of_light # << >> THEN speed_of_light[1] ELSE @,
        !.constants.gravity_force_min_distance =
            IF gravity_force_min_distance # << >>
            THEN gravity_force_min_distance[1] ELSE @ ]

\* variant: a rejected construction drops the domain and the simulator
build_galaxy_torn(c, central_mass, boundary_type) ==
    LET g == GravityLoom(c.constants.gravity_constant, c.constants.speed_of_light,
                         c.constants.gravity_force_min_distance)
        canopy == AstralCanopy(g, central_mass, boundary_type)
    IN  IF CanopyRaises(central_mass, boundary_type)
        THEN [ raised |-> "ValueError",
               court |-> [c EXCEPT !.gravity_module = g,
                                   !.galaxy_model = None,
                                   !.simulation_module = None] ]
        ELSE [ raised |-> "",
               court |-> [ c EXCEPT
                   !.gravity_module = g,
                   !.simulation_module =
                       OrbitalLoom(g, canopy.boundary_effect, c.time_step),
                   !.galaxy_model = [ canopy EXCEPT
                                        !.gravity_module = g,
                                        !.boundary_effect = c.boundary_effect ] ] ]

\* variant: a new domain takes over the anchors and the particle of the old one
build_galaxy_carried(c, central_mass, boundary_type) ==
    LET g == GravityLoom(c.constants.gravity_constant, c.constants.speed_of_light,
                         c.constants.gravity_force_min_distance)
        canopy == AstralCanopy(g, central_mass, boundary_type)
    IN  IF CanopyRaises(central_mass, boundary_type)
        THEN [ raised |-> "ValueError", court |-> [c EXCEPT !.gravity_module = g] ]
        ELSE [ raised |-> "",
               court |-> [ c EXCEPT
                   !.gravity_module = g,
                   !.simulation_module =
                       OrbitalLoom(g, canopy.boundary_effect, c.time_step),
                   !.galaxy_model = [ canopy EXCEPT
                       !.gravity_module = g,
                       !.boundary_effect = c.boundary_effect,
                       !.stellar_pearls =
                           IF c.galaxy_model = None THEN @
                           ELSE c.galaxy_model.stellar_pearls,
                       !.celestial_plume =
                           IF c.galaxy_model = None THEN @
                           ELSE c.galaxy_model.celestial_plume ] ] ]

\* build_galaxy: the gravity module is replaced before the domain is constructed
build_galaxy(c, central_mass, boundary_type) ==
    LET g == GravityLoom(c.constants.gravity_constant, c.constants.speed_of_light,
                         c.constants.gravity_force_min_distance)
        canopy == AstralCanopy(g, central_mass, boundary_type)
    IN  IF CanopyRaises(central_mass, boundary_type)
        THEN [ raised |-> "ValueError", court |-> [c EXCEPT !.gravity_module = g] ]
        ELSE [ raised |-> "",
               court |-> [ c EXCEPT
                   !.gravity_module = g,
                   !.simulation_module =
                       OrbitalLoom(g, canopy.boundary_effect, c.time_step),
                   \* set_gravity_module(g); set_boundary_effect(self.boundary_effect)
                   !.galaxy_model = [ canopy EXCEPT
                                        !.gravity_module = g,
                                        !.boundary_effect = c.boundary_effect ] ] ]

add_stellar_pearl(c, name, mass, position, orbit_raduis) ==
    IF c.gravity_module = None
    THEN [ raised |-> "AttributeError", court |-> c ]
    ELSE IF OrbitalRaises(c.gravity_module, mass, orbit_raduis)
    THEN [ raised |-> "ValueError", court |-> c ]
    ELSE IF c.galaxy_model = None
    THEN [ raised |-> "AttributeError", court |-> c ]
    ELSE LET v == calculate_orbital_escape_velocities(c.gravity_module, mass,
                                                     orbit_raduis)
             sp == StellarPearl(c.next_id, name, position, mass, orbit_raduis,
                                v.orbit_velocity, v.escape_velocity)
         IN  [ raised |-> "",
               court |-> [ c EXCEPT
                   !.next_id = @ + 1,
                   !.galaxy_model.stellar_pearls = Append(@, sp) ] ]

set_celestial_plume(c, mass, position, velocity) ==
    IF c.galaxy_model = None
    THEN [ raised |-> "AttributeError", court |-> c ]
    ELSE [ raised |-> "",
           court |-> [ c EXCEPT !.galaxy_model.celestial_plume =
                                   CelestialPlume(position, velocity, mass) ] ]

set_time_step(c, time_step) ==
    IF c.simulation_module # None
    THEN [ c EXCEPT !.time_step = time_step,
                    !.simulation_module.time_step = time_step ]
    ELSE [ c EXCEPT !.time_step = time_step ]

get_galaxy_status(c) ==
    IF c.galaxy_model = None THEN [ status |-> "not_built" ]
    ELSE [ status |-> "built",
           central_mass |-> c.galaxy_model.central_mass,
           boundary_type |-> c.galaxy_model.boundary_type,
           stellar_pearls_count |-> Len(c.galaxy_model.stellar_pearls),
           disabled_gravity_count |-> Cardinality(DOMAIN c.disabled_gravity_timers),
           constants |-> c.constants,
           time_step |-> c.time_step ]

\* _handle_capture_events: every reported capture puts its anchor to sleep and
\* starts a 60-step timer
RECURSIVE HandleCaptureEvents(_, _, _)
HandleCaptureEvents(c, captures, k) ==
    IF k = 0 THEN c
    ELSE LET before == HandleCaptureEvents(c, captures, k - 1)
             id == captures[k].stellar_pearl_id
             pearls == before.galaxy_model.stellar_pearls
             hit == { i \in 1..Len(pearls) : pearls[i].id = id }
         IN  IF hit = {} THEN before
             ELSE LET i == CHOOSE i \in hit : \A j \in hit : i <= j
                  IN  [ before EXCEPT
                          !.galaxy_model.stellar_pearls[i].perturbations = FALSE,
                          !.disabled_gravity_timers =
                              [ x \in (DOMAIN @) \cup {id} |-> IF x = id THEN 60 ELSE @[x] ] ]

\* _update_gravity_timers: every timer is decremented; one that had run out calls
\* enable_gravity() on its anchor, a method StellarPearl does not define
TimersRaise(c) ==
    \E id \in DOMAIN c.disabled_gravity_timers :
        /\ c.disabled_gravity_timers[id] <= 0
        /\ \E i \in 1..Len(c.galaxy_model.stellar_pearls) :
               c.galaxy_model.stellar_pearls[i].id = id

UpdateGravityTimers(c) ==
    LET timers == c.disabled_gravity_timers
        kept == { id \in DOMAIN timers : timers[id] > 0 }
    IN  [ c EXCEPT !.disabled_gravity_timers = [ id \in kept |-> timers[id] - 1 ] ]

\* ------------------------------------------------------------------- state
VARIABLES
    court,      \* the StellarCourtyard object and everything it owns
    pc,         \* "idle", or "loop" inside run_simulation's for loop
    time,       \* the loop variable of run_simulation
    steps,      \* the argument of the run_simulation call in progress
    results,    \* the results list of the run_simulation call in progress
    ret,        \* outcome of the last completed call: what it raised or returned
    last,       \* record of the last executed step (observation only)
    runCapture, \* per anchor position: step of its last capture in this run, or -1
    dormantSince, \* per anchor position: step of this run at which it last went from
                  \* active to dormant, or -1
    calls,      \* configuration calls made so far
    runs        \* run_simulation calls made so far

vars == << court, pc, time, steps, results, ret, last, runCapture, dormantSince,
           calls, runs >>

NoStep == [ kind |-> "init", step |-> -1, raised |-> "", active |-> << >>,
            filtered |-> << >>, evaluated |-> FALSE, result |-> None,
            captured |-> NoAnchor,
            pearls_before |-> << >>, plume_before |-> None, sim_before |-> None,
            step_raised |-> "", pearls_after |-> << >>, plume_after |-> None ]

NoReturn == [ call |-> "init", args |-> << >>, raised |-> "", value |-> None,
             before |-> None ]

Untracked(c) ==
    IF c.galaxy_model = None THEN << >>
    ELSE [ k \in 1..Len(c.galaxy_model.stellar_pearls) |-> -1 ]

\* the state right after StellarCourtyard()
InitOf(c) ==
    /\ court = c
    /\ pc = "idle"
    /\ time = 0
    /\ steps = 0
    /\ results = << >>
    /\ ret = NoReturn
    /\ last = NoStep
    /\ runCapture = Untracked(c)
    /\ dormantSince = Untracked(c)
    /\ calls = 0
    /\ runs = 0

Init == InitOf(NewCourtyard)

\* a configuration call with arguments `args` that leaves the courtyard `after`,
\* raising `raised`
Configure(call, args, raised, after) ==
    /\ pc = "idle"
    /\ calls < MaxCalls
    /\ calls' = calls + 1
    /\ court' = after
    /\ ret' = [ call |-> call, args |-> args, raised |-> raised, value |-> None,
                before |-> court ]
    /\ runCapture' = Untracked(after)
    /\ dormantSince' = Untracked(after)
    /\ UNCHANGED << pc, time, steps, results, last, runs >>

\* ------------------------------------------------------------ inputs of calls
\* set_constants arguments: (gravity_constant, speed_of_light, min distance)
ConstantChoices ==
    { << <<200>>, << >>, << >> >>,
      << <<-100>>, << >>, << >> >>,
      << <<0>>, <<0>>, <<0>> >> }

CentralMasses == { 0, 885, 1770 }

BoundaryTypes == { "infinite", "Reflective", "cubic" }

\* add_stellar_pearl arguments
AnchorChoices ==
    { [ name |-> "P1", mass |-> 10, position |-> Vector3D(0, 0, 0),
        orbit_raduis |-> 1000 ],
      [ name |-> "P2", mass |-> 20, position |-> Vector3D(1500, 0, 0),
        orbit_raduis |-> 500 ],
      [ name |-> "P3", mass |-> 0, position |-> Vector3D(0, 2000, 0),
        orbit_raduis |-> 1000 ],
      [ name |-> "P4", mass |-> -5, position |-> Vector3D(0, -2000, 0),
        orbit_raduis |-> 1000 ],
      [ name |-> "P5", mass |-> -5, position |-> Vector3D(0, -2000, 0),
        orbit_raduis |-> 0 ] }

\* set_celestial_plume arguments
PlumeChoices ==
    { [ mass |-> 1, position |-> Vector3D(900, 0, 0),
        velocity |-> Vector3D(0, 1000, 0) ],
      [ mass |-> 0, position |-> Vector3D(0, 4000, 0),
        velocity |-> Vector3D(0, 2000, 0) ] }

TimeStepChoices == { 1000 }

\* run_simulation arguments used by the interface-level specification
ShortRuns == { 0, 2 }

\* ----------------------------------------------------------------- actions
SetConstants ==
    \E a \in ConstantChoices :
        Configure("set_constants", a, "", set_constants(court, a[1], a[2], a[3]))

BuildGalaxy ==
    \E central_mass \in CentralMasses, boundary_type \in BoundaryTypes :
        LET out == build_galaxy(court, central_mass, boundary_type)
        IN  Configure("build_galaxy", <<central_mass, boundary_type>>, out.raised,
                      out.court)

AddStellarPearl ==
    \E a \in AnchorChoices :
        /\ IF court.galaxy_model = None THEN TRUE
           ELSE Len(court.galaxy_model.stellar_pearls) < MaxAnchors
        /\ LET out == add_stellar_pearl(court, a.name, a.mass, a.position,
                                        a.orbit_raduis)
           IN  Configure("add_stellar_pearl", <<a>>, out.raised, out.court)

SetCelestialPlume ==
    \E a \in PlumeChoices :
        LET out == set_celestial_plume(court, a.mass, a.position, a.velocity)
        IN  Configure("set_celestial_plume", <<a>>, out.raised, out.court)

SetTimeStep ==
    \E time_step \in TimeStepChoices :
        Configure("set_time_step", <<time_step>>, "", set_time_step(court, time_step))

\* variant: a run that lacks a domain or a particle returns an empty list
RunStartUnguarded(n) ==
    /\ pc = "idle"
    /\ runs < MaxRuns
    /\ runs' = runs + 1
    /\ runCapture' = Untracked(court)
    /\ dormantSince' = Untracked(court)
    /\ last' = NoStep
    /\ pc' = "loop"
    /\ time' = 0
    /\ steps' = IF court.galaxy_model = None THEN 0
                ELSE IF court.galaxy_model.celestial_plume = None THEN 0 ELSE n
    /\ results' = << >>
    /\ ret' = [ call |-> "run_simulation", args |-> <<n>>, raised |-> "",
                value |-> None, before |-> court ]
    /\ UNCHANGED << court, calls >>

\* run_simulation up to the loop: the precondition checks
RunStart(n) ==
    /\ pc = "idle"
    /\ runs < MaxRuns
    /\ runs' = runs + 1
    /\ runCapture' = Untracked(court)
    /\ dormantSince' = Untracked(court)
    /\ last' = NoStep
    /\ IF court.galaxy_model = None \/ court.simulation_module = None
       THEN /\ ret' = [ call |-> "run_simulation", args |-> <<n>>,
                        raised |-> "RuntimeError", value |-> None,
                        before |-> court ]
            /\ UNCHANGED << court, pc, time, steps, results, calls >>
       ELSE IF court.galaxy_model.celestial_plume = None
       THEN /\ ret' = [ call |-> "run_simulation", args |-> <<n>>,
                        raised |-> "RuntimeError", value |-> None,
                        before |-> court ]
            /\ UNCHANGED << court, pc, time, steps, results, calls >>
       ELSE /\ pc' = "loop"
            /\ time' = 0
            /\ steps' = n
            /\ results' = << >>
            /\ ret' = [ call |-> "run_simulation", args |-> <<n>>, raised |-> "",
                        value |-> None, before |-> court ]
            /\ UNCHANGED << court, calls >>

\* the rest of a loop iteration once step has returned or raised `out` and
\* _handle_capture_events has left the courtyard `handled`
AfterStep(out, handled, raised) ==
    /\ last' = [ kind |-> out.kind, step |-> time, raised |-> raised,
                 active |-> out.active, filtered |-> out.filtered,
                 evaluated |-> out.evaluated, result |-> out.result,
                 captured |-> out.captured,
                 pearls_before |-> court.galaxy_model.stellar_pearls,
                 plume_before |-> court.galaxy_model.celestial_plume,
                 sim_before |-> court.simulation_module,
                 \* what step itself raised and left, before the rest of the
                 \* iteration
                 step_raised |-> out.raised,
                 pearls_after |-> out.pearls, plume_after |-> out.plume ]
    /\ runCapture' = [ k \in 1..Len(out.pearls) |->
                         IF out.captured = k THEN time ELSE runCapture[k] ]
    /\ dormantSince' = [ k \in 1..Len(out.pearls) |->
                           IF court.galaxy_model.stellar_pearls[k].perturbations
                              /\ ~out.pearls[k].perturbations
                           THEN time ELSE dormantSince[k] ]
    /\ IF raised # ""
       THEN /\ court' = handled
            /\ pc' = "idle"
            /\ ret' = [ ret EXCEPT !.raised = raised ]
            /\ UNCHANGED << time, results >>
       ELSE /\ court' = UpdateGravityTimers(handled)
            /\ results' = Append(results, out.result)
            /\ time' = time + 1
            /\ UNCHANGED << pc, ret >>

\* _update_gravity_timers raises when a timer that ran out finds its anchor
AfterHandle(out, handled) ==
    AfterStep(out, handled, IF TimersRaise(handled) THEN "AttributeError" ELSE "")

\* the courtyard as step leaves it
Stepped(out) ==
    [ court EXCEPT !.galaxy_model.stellar_pearls = out.pearls,
                   !.galaxy_model.celestial_plume = out.plume ]

AfterStepCall(out) ==
    IF out.raised # "" THEN AfterStep(out, Stepped(out), out.raised)
    ELSE AfterHandle(out, HandleCaptureEvents(Stepped(out), out.result.captures,
                                              Len(out.result.captures)))

\* one iteration of the loop: step, _handle_capture_events, _update_gravity_timers,
\* results.append; an exception leaves the loop and the call
RunStep ==
    /\ pc = "loop"
    /\ time < steps
    /\ AfterStepCall(Step(court.simulation_module,
                          court.galaxy_model.stellar_pearls,
                          court.galaxy_model.celestial_plume, time))
    /\ UNCHANGED << steps, calls, runs >>

\* the loop is over: return results
RunEnd ==
    /\ pc = "loop"
    /\ time >= steps
    /\ pc' = "idle"
    /\ ret' = [ ret EXCEPT !.value = results ]
    /\ UNCHANGED << court, time, steps, results, last, runCapture, dormantSince,
                    calls, runs >>

Next ==
    \/ SetConstants
    \/ BuildGalaxy
    \/ AddStellarPearl
    \/ SetCelestialPlume
    \/ SetTimeStep
    \/ \E n \in ShortRuns : RunStart(n)
    \/ RunStep
    \/ RunEnd

Spec == Init /\ [][Next]_vars

\* --------------------------------------------- runs from configured domains
\* anchors used by the run-level specification
AnchorA == [ name |-> "A", mass |-> 10, position |-> Vector3D(0, 0, 0),
             orbit_raduis |-> 1000 ]
AnchorB == [ name |-> "B", mass |-> 10, position |-> Vector3D(1500, 0, 0),
             orbit_raduis |-> 1000 ]
AnchorC == [ name |-> "C", mass |-> 20, position |-> Vector3D(0, 3000, 0),
             orbit_raduis |-> 1000 ]
AnchorD == [ name |-> "D", mass |-> 10, position |-> Vector3D(4500, 0, 0),
             orbit_raduis |-> 1000 ]

AnchorLists ==
    { << >>, <<AnchorA, AnchorB>>, <<AnchorD>>,
      <<AnchorC, AnchorD>> }

PlumeStarts ==
    { [ mass |-> 1, position |-> Vector3D(980, 0, 0), velocity |-> Vector3D(3000, 0, 0) ],
      [ mass |-> 1, position |-> Vector3D(740, 0, 0), velocity |-> Vector3D(2000, 0, 0) ],
      [ mass |-> 1, position |-> Vector3D(4900, 0, 0), velocity |-> Vector3D(20000, 0, 0) ],
      [ mass |-> 1, position |-> Vector3D(0, 1500, 0), velocity |-> Vector3D(500, 0, 0) ],
      [ mass |-> 1, position |-> Vector3D(5200, 0, 0), velocity |-> Vector3D(1000, 0, 0) ],
      [ mass |-> 1, position |-> Vector3D(750, 0, 0), velocity |-> Vector3D(0, 2000, 0) ],
      [ mass |-> 0, position |-> Vector3D(2000, 2000, 0), velocity |-> Vector3D(0, 0, 0) ] }

\* time steps: the default 0.01 (no set_time_step call)
RunTimeSteps == { 10 }

RunBoundaryTypes == { "infinite", "reflective" }

\* particles that start outside the boundary: off the axes, at rest, moving inwards
OutsideStarts ==
    { [ mass |-> 1, position |-> Vector3D(3000, 4200, 0), velocity |-> Vector3D(0, 1000, 500) ],
      [ mass |-> 1, position |-> Vector3D(6000, 0, 0), velocity |-> Vector3D(0, 0, 0) ],
      [ mass |-> 1, position |-> Vector3D(5200, 0, 0), velocity |-> Vector3D(-1000, 0, 0) ],
      [ mass |-> 1, position |-> Vector3D(3000, 4200, 0), velocity |-> Vector3D(0, 0, 0) ] }

\* a particle that leaves the orbit radius of an anchor after four steps inside
LeavingStarts ==
    { [ mass |-> 1, position |-> Vector3D(3570, 0, 0), velocity |-> Vector3D(-2000, 0, 0) ] }

Scenarios ==
    [ boundary_type : RunBoundaryTypes, anchors : AnchorLists,
      plume : PlumeStarts, time_step : RunTimeSteps ]
    \cup [ boundary_type : RunBoundaryTypes, anchors : { <<AnchorD>> },
           plume : OutsideStarts \cup LeavingStarts, time_step : RunTimeSteps ]

RECURSIVE AddAll(_, _, _)
AddAll(c, anchors, k) ==
    IF k = 0 THEN c
    ELSE LET a == anchors[k]
         IN  add_stellar_pearl(AddAll(c, anchors, k - 1), a.name, a.mass,
                               a.position, a.orbit_raduis).court

\* the courtyard after build_galaxy, add_stellar_pearl..., set_celestial_plume
\* and set_time_step
ScenarioCourt(s) ==
    LET built == build_galaxy(NewCourtyard, 885, s.boundary_type).court
        filled == AddAll(built, s.anchors, Len(s.anchors))
        flown == set_celestial_plume(filled, s.plume.mass, s.plume.position,
                                     s.plume.velocity).court
    IN  IF s.time_step = NewCourtyard.time_step THEN flown
        ELSE set_time_step(flown, s.time_step)

InitRun == \E s \in Scenarios : InitOf(ScenarioCourt(s))

\* run_simulation arguments used by the run-level specification
LongRuns == { 3, MaxSteps }

NextRun ==
    \/ \E n \in LongRuns : RunStart(n)
    \/ RunStep
    \/ RunEnd

SpecRun == InitRun /\ [][NextRun]_vars

\* ------------------------------------------------ the gravity module on its own
\* GravityLoom is also a library class: a caller constructs it with its own flags
\* and calls calculate_gravity_force and calculate_total_acceleration on bodies of
\* its choice.  The loom under test is kept in court.gravity_module.

\* a slow speed of light, so that the relativistic factor differs from 1
SlowLight == 10

\* constructor arguments (gravity_constant, speed_of_light, min distance)
LoomConstants ==
    { << 100, STARDUST_LIGHT_SPEED, 1 >>, << 100, SlowLight, 500 >>,
      << 100, SlowLight, 0 >>, << 100, 0, -5 >>, << -100, SlowLight, 2000 >> }

Looms ==
    { GravityLoomWith(k[1], k[2], k[3], pert, rel, "rk4") :
        k \in LoomConstants, pert \in BOOLEAN, rel \in BOOLEAN }

\* a StardustCore as the force law reads it: a mass at a position
Body(mass, position) == [ mass |-> mass, position |-> position ]

ForcePositions == { ZeroVec, Vector3D(300, 0, 0), Vector3D(0, 1000, 0) }

\* the bodies that exert the force, and the bodies it acts on
ForceSources == { Body(m, p) : m \in { -3, 0, 10, 100 }, p \in ForcePositions }
ForceTargets == { Body(m, p) : m \in { -3, 0, 1 }, p \in ForcePositions }

\* a particle of mass 1 at rest at the origin, and an anchor of mass 100 on the
\* x axis and one on the y axis, each 10 away from it
RestingPoint == CelestialPlume(ZeroVec, ZeroVec, 1)
AxisAnchors == << Body(100, Vector3D(10000, 0, 0)), Body(100, Vector3D(0, 10000, 0)) >>

AccelerationPoints ==
    { RestingPoint, CelestialPlume(ZeroVec, ZeroVec, 0),
      CelestialPlume(Vector3D(300, 0, 0), Vector3D(0, 1000, 0), 2) }

SourceLists ==
    { << >>, AxisAnchors, << AxisAnchors[2], AxisAnchors[1] >>, << AxisAnchors[1] >>,
      << Body(10, Vector3D(0, 1000, 0)), Body(-3, Vector3D(0, 0, 3000)) >> }

InitLoom ==
    \E loom \in Looms : InitOf([ NewCourtyard EXCEPT !.gravity_module = loom ])

\* a call of a GravityLoom method that changes nothing
Query(call, args, raised, value) ==
    /\ pc = "idle"
    /\ calls < MaxQueries
    /\ calls' = calls + 1
    /\ ret' = [ call |-> call, args |-> args, raised |-> raised, value |-> value,
                before |-> court ]
    /\ UNCHANGED << court, pc, time, steps, results, last, runCapture,
                    dormantSince, runs >>

CallGravityForce ==
    \E stellar \in ForceSources, plume \in ForceTargets :
        IF ForceRaises(court.gravity_module, stellar, plume)
        THEN Query("calculate_gravity_force", << stellar, plume >>,
                   "ZeroDivisionError", None)
        ELSE Query("calculate_gravity_force", << stellar, plume >>, "",
                   calculate_gravity_force(court.gravity_module, stellar, plume))

CallTotalAcceleration ==
    \E point \in AccelerationPoints, sources \in SourceLists :
        IF DivisionRaises(point.mass)
        THEN Query("calculate_total_acceleration", << point, sources >>,
                   "ValueError", None)
        ELSE Query("calculate_total_acceleration", << point, sources >>, "",
                   calculate_total_acceleration(court.gravity_module, point, sources))

NextLoom ==
    \/ CallGravityForce
    \/ CallTotalAcceleration

SpecLoom == InitLoom /\ [][NextLoom]_vars

\* ------------------------------------------------------------- properties
Range(s) == { s[i] : i \in DOMAIN s }

\* the anchors and the particle the courtyard currently holds
Pearls ==
    IF court.galaxy_model = None THEN << >>
    ELSE court.galaxy_model.stellar_pearls

Plume ==
    IF court.galaxy_model = None THEN None
    ELSE court.galaxy_model.celestial_plume

\* distance from the particle as the last step found it to anchor k
DistanceBefore(k) ==
    Magnitude(VSub(last.plume_before.position, last.pearls_before[k].position))

\* anchor k was the nearest one when the last step began: nobody strictly
\* nearer, nobody equally near earlier in the collection
NearestBefore(k) ==
    /\ \A j \in DOMAIN last.pearls_before : DistanceBefore(k) <= DistanceBefore(j)
    /\ \A j \in 1..(k - 1) : DistanceBefore(k) < DistanceBefore(j)

\* the last step ran on a non-empty anchor collection without touching the
\* boundary
SteppedInside ==
    /\ last.step >= 0
    /\ Len(last.pearls_before) > 0
    /\ ~check_collision(last.sim_before.boundary_effect, last.plume_before).collided

\* C1: within one run, an anchor captured at step S and not captured again is
\* in neither the active set nor the gravity sources of any step S+1..S+59 that
\* computes an acceleration, and is in the active set handed to influence
\* filtering at every such step from S+60 on (so at the first one).
C1_DormantAnchorLeftOut ==
    \A k \in DOMAIN runCapture :
        (last.evaluated /\ runCapture[k] >= 0) =>
            /\ (last.step >= runCapture[k] + 1 /\ last.step <= runCapture[k] + 59)
                  => /\ last.pearls_before[k].id \notin Range(last.active)
                     /\ last.pearls_before[k].id \notin Range(last.filtered)
            /\ last.step >= runCapture[k] + 60
                  => last.pearls_before[k].id \in Range(last.active)

\* a gravity step exactly 60 steps after the capture that finds the anchor
\* still dormant and takes it back into the active set
C1_Witness ==
    \E k \in DOMAIN runCapture :
        /\ last.evaluated
        /\ runCapture[k] >= 0
        /\ last.step = runCapture[k] + 60
        /\ ~last.pearls_before[k].perturbations
        /\ last.pearls_before[k].id \in Range(last.active)

\* C2: an anchor that became Dormant at step S has its perturbations flag false
\* after each of the steps S..S+59 and true after step S+60, whatever the
\* particle does.
C2_ActiveAfterExactlySixtySteps ==
    \A k \in DOMAIN dormantSince :
        (dormantSince[k] >= 0 /\ last.step >= dormantSince[k] /\ last.raised = "") =>
            /\ last.step <= dormantSince[k] + 59 => ~Pearls[k].perturbations
            /\ last.step = dormantSince[k] + 60 => Pearls[k].perturbations

\* C3: a step in which check_collision is true returns the boundary-updated
\* position and velocity and changes no anchor.
C3_BoundaryStepReturns ==
    (last.step >= 0
       /\ check_collision(last.sim_before.boundary_effect, last.plume_before).collided)
    => /\ last.raised = ""
       /\ Len(last.result.boundary_collisions) = 1
       /\ last.result.positions = << Plume.position >>
       /\ last.result.velocities = << Plume.velocity >>
       /\ Pearls = last.pearls_before

\* C4: in a step S without boundary collision, if the nearest anchor (over all
\* anchors, dormant ones included) is strictly nearer than its orbit radius, it
\* is dormant after the step with revival_rounds = S; otherwise no anchor
\* becomes dormant in the step.
C4_NearestAnchorCaptured ==
    SteppedInside =>
        \A k \in DOMAIN last.pearls_before :
            NearestBefore(k) =>
                IF DistanceBefore(k) < last.pearls_before[k].orbit_radius
                THEN /\ ~Pearls[k].perturbations
                     /\ Pearls[k].revival_rounds = last.step
                ELSE \A j \in DOMAIN last.pearls_before :
                         last.pearls_before[j].perturbations
                            => Pearls[j].perturbations

\* a step that captures a nearest anchor which was already dormant
C4_Witness ==
    /\ SteppedInside
    /\ \E k \in DOMAIN last.pearls_before :
          /\ NearestBefore(k)
          /\ DistanceBefore(k) < last.pearls_before[k].orbit_radius
          /\ ~last.pearls_before[k].perturbations
          /\ last.pearls_before[k].revival_rounds < last.step
          /\ Pearls[k].revival_rounds = last.step

\* C5: in a step without boundary collision every anchor, nearest or not,
\* that is strictly nearer to the particle than its own orbit radius is dormant
\* after the step.
C5_AnyAnchorCaptured ==
    (SteppedInside /\ last.raised = "") =>
        \A k \in DOMAIN last.pearls_before :
            DistanceBefore(k) < last.pearls_before[k].orbit_radius
               => ~Pearls[k].perturbations

\* C5, amended: capture applies to the nearest anchor only.  In a step without
\* boundary collision the nearest anchor (the earliest of equally near ones) is
\* dormant after the step if it is strictly nearer than its orbit radius, and
\* an anchor that is not the nearest does not become dormant, inside its orbit
\* radius or not.
C5_OnlyNearestCaptured ==
    SteppedInside =>
        \A k \in DOMAIN last.pearls_before :
            IF NearestBefore(k)
            THEN DistanceBefore(k) < last.pearls_before[k].orbit_radius
                    => ~Pearls[k].perturbations
            ELSE last.pearls_before[k].perturbations => Pearls[k].perturbations

\* a capture step that leaves awake another anchor whose orbit radius the
\* particle is inside
C5_Witness ==
    /\ SteppedInside
    /\ last.captured # NoAnchor
    /\ \E k \in DOMAIN last.pearls_before :
          /\ ~NearestBefore(k)
          /\ DistanceBefore(k) < last.pearls_before[k].orbit_radius
          /\ last.pearls_before[k].perturbations
          /\ Pearls[k].perturbations

\* C6: the result of a step that captures an anchor holds a capture event
\* identifying that anchor, and the result of a step without capture has an
\* empty capture list.
C6_CaptureEventsReported ==
    (last.step >= 0 /\ last.raised = "") =>
        IF last.captured # NoAnchor
        THEN \E e \in Range(last.result.captures) :
                 e.stellar_pearl_id = last.pearls_before[last.captured].id
        ELSE last.result.captures = << >>

\* C7: between calls, the disabled_gravity_count of get_galaxy_status equals
\* the number of anchors whose perturbations flag is false.
C7_DormantCountReported ==
    (pc = "idle" /\ court.galaxy_model # None) =>
        get_galaxy_status(court).disabled_gravity_count
            = Cardinality({ k \in DOMAIN Pearls : ~Pearls[k].perturbations })

\* C8: run_simulation called with no domain built, or with a domain and no
\* particle, raises before any step: no results are returned and the courtyard,
\* with every anchor and the particle, is as it was.
C8_RunPreconditionsAbort ==
    (ret.call = "run_simulation"
       /\ (\/ ret.before.galaxy_model = None
           \/ ret.before.galaxy_model.celestial_plume = None))
    => /\ ret.raised = "RuntimeError"
       /\ ret.value = None
       /\ pc = "idle"
       /\ last.step = -1
       /\ court = ret.before

\* run_simulation refused on a built domain that holds an anchor and no particle
C8_Witness ==
    /\ ret.call = "run_simulation"
    /\ ret.raised = "RuntimeError"
    /\ ret.args = <<2>>
    /\ ret.before.galaxy_model # None
    /\ Len(Pearls) > 0
    /\ Plume = None
    /\ court = ret.before

\* C9: with a domain built and a particle set, run_simulation(n) executes the
\* steps 0..n-1 in order and returns exactly n results, the i-th that of step
\* i, for every anchor collection and every particle mass.
C9_RunReturnsEveryResult ==
    (ret.call = "run_simulation"
       /\ ret.before.galaxy_model # None
       /\ ret.before.galaxy_model.celestial_plume # None)
    => /\ ret.raised = ""
       /\ Len(results) = time
       /\ time <= steps
       /\ pc = "idle" => (ret.value = results /\ Len(results) = ret.args[1])
       /\ last.step >= 0 => (last.step = time - 1 /\ results[time] = last.result)

\* C10: build_galaxy with central mass <= 0 or an unrecognised boundary kind
\* raises and builds nothing: the domain (none, or the earlier one with its
\* anchors and particle) and the simulator are as before, so the status and
\* the run precondition are as before.
C10_FailedBuildKeepsDomain ==
    (ret.call = "build_galaxy"
       /\ (\/ ret.args[1] <= 0
           \/ ret.args[2] \notin {"infinite", "reflective", "Reflective"}))
    => /\ ret.raised = "ValueError"
       /\ court.galaxy_model = ret.before.galaxy_model
       /\ court.simulation_module = ret.before.simulation_module
       /\ get_galaxy_status(court) = get_galaxy_status(ret.before)

\* a rejected build_galaxy on a courtyard that already holds a domain with an
\* anchor and a particle
C10_Witness ==
    /\ ret.call = "build_galaxy"
    /\ ret.raised = "ValueError"
    /\ ret.before.galaxy_model # None
    /\ Len(Pearls) > 0
    /\ Plume # None

\* C11: add_stellar_pearl on a built domain with a mass <= 0 returns normally,
\* appends the anchor to the domain's collection and marks it invalid.
C11_InvalidAnchorAdded ==
    (ret.call = "add_stellar_pearl"
       /\ ret.before.galaxy_model # None
       /\ ret.args[1].mass <= 0)
    => /\ ret.raised = ""
       /\ Len(Pearls) = Len(ret.before.galaxy_model.stellar_pearls) + 1
       /\ ~Pearls[Len(Pearls)].is_valid

\* C12: a particle set with a mass <= 0 has the default mass 1.0 afterwards.
C12_ParticleMassReset ==
    (ret.call = "set_celestial_plume"
       /\ ret.raised = ""
       /\ ret.args[1].mass <= 0)
    => Plume.mass = DEFAULT_MASS

\* the anchors of `pearls` in the order given by the permutation p
Permuted(pearls, p) == [ k \in DOMAIN pearls |-> pearls[p[k]] ]

\* a step's outcome without the list positions it names: the captured anchor's
\* index and the order of the anchors handed to the filter depend on the list
Seen(out) == [ out EXCEPT !.captured = NoAnchor, !.active = << >>, !.filtered = << >> ]

\* what the last step did, with the anchors it left put in the order p
SeenLast(p) ==
    [ kind |-> last.kind, raised |-> last.step_raised,
      pearls |-> Permuted(last.pearls_after, p), plume |-> last.plume_after,
      result |-> last.result, captured |-> NoAnchor, active |-> << >>,
      filtered |-> << >>, evaluated |-> last.evaluated ]

\* the last step does the same on the domain whose anchors were added in the
\* order p: same branch, same exception, same particle, same result, same anchors
StepCommutes(p) ==
    Seen(Step(last.sim_before, Permuted(last.pearls_before, p),
              last.plume_before, last.step)) = SeenLast(p)

\* the other orders in which the anchors could have been added
Reorderings ==
    { p \in Permutations(DOMAIN last.pearls_before) :
        \E k \in DOMAIN last.pearls_before : p[k] # k }

\* two anchors were at the same least distance from the particle when the last
\* step began
TiedForNearest ==
    \E i, j \in DOMAIN last.pearls_before :
        /\ i # j
        /\ DistanceBefore(i) = DistanceBefore(j)
        /\ \A k \in DOMAIN last.pearls_before : DistanceBefore(i) <= DistanceBefore(k)

Near(a, b) == \A i \in 1..3 : Abs(a[i] - b[i]) <= 2

\* the last step found the particle beyond the boundary radius of a domain of
\* the given kind
SteppedOutside(type) ==
    /\ last.step >= 0
    /\ last.sim_before.boundary_effect.type = type
    /\ Magnitude(last.plume_before.position)
          > last.sim_before.boundary_effect.boundary_radius

\* C14: wrap boundary, reflection angle 0: a particle beyond the radius along
\* the unit direction d with velocity v is put at
\* -radius * d + 0.05 * radius * normalize(v) and leaves with velocity 0.6 * v.
C14_WrapToFarSide ==
    SteppedOutside("infinite") =>
        /\ Near(Plume.position,
                VAdd(VMul(Normalize(last.plume_before.position),
                          -last.sim_before.boundary_effect.boundary_radius),
                     VMul(Normalize(last.plume_before.velocity),
                          FMul(last.sim_before.boundary_effect.boundary_radius, 50))))
        /\ Plume.velocity = VMul(last.plume_before.velocity, 600)

\* a wrap of a particle that was off the axes, moving across its direction
C14_Witness ==
    /\ SteppedOutside("infinite")
    /\ last.plume_before.position[1] # 0
    /\ last.plume_before.position[2] # 0
    /\ last.plume_before.velocity[3] # 0
    /\ Plume.velocity = VMul(last.plume_before.velocity, 600)
    /\ Magnitude(Plume.position) < Magnitude(last.plume_before.position)

\* influence thresholds (in millionths) and source limits the filter is tried with
ThresholdChoices == { 1, 300000 }
MaxSourceChoices == { 0, 1, 10 }

\* r^2 for the point and the source s
SquaredDistance(point, s) ==
    FMul(Magnitude(VSub(point.position, s.position)),
         Magnitude(VSub(point.position, s.position)))

\* source s is at least 1e-10 away from the point and its influence
\* G * mass / r^2 is at least the threshold
Qualifies(g, point, s, threshold_millionths) ==
    /\ ~(Magnitude(VSub(point.position, s.position)) < 1)
    /\ g.gravity_constant * s.mass > 0
    /\ IF threshold_millionths < 1000
       THEN SquaredDistance(point, s) * threshold_millionths
               <= g.gravity_constant * s.mass * 1000000
       ELSE SquaredDistance(point, s) * (threshold_millionths \div 1000)
               <= g.gravity_constant * s.mass * 1000

\* what the filter's answer `out` has to satisfy
FilterContract(g, point, sources, threshold_millionths, max_sources, out) ==
    /\ \A i \in DOMAIN out : out[i] \in Range(sources)
    /\ \A i, j \in DOMAIN out :
           i < j => Influence(g, point, out[i]) >= Influence(g, point, out[j])
    /\ Len(out) <= max_sources
    /\ \A i \in DOMAIN out : Qualifies(g, point, out[i], threshold_millionths)
    /\ \A s \in Range(sources) :
           (Qualifies(g, point, s, threshold_millionths) /\ s \notin Range(out))
              => /\ Len(out) = max_sources
                 /\ \A i \in DOMAIN out :
                        Influence(g, point, out[i]) >= Influence(g, point, s)

\* the filter applied to the particle and the active anchors of the last
\* gravity step
FilterAnswer(threshold_millionths, max_sources) ==
    filter_gravity_sources_by_influence(
        last.sim_before.gravity_module, last.plume_before,
        ActiveAnchors(last.pearls_before, last.step),
        threshold_millionths, max_sources)

\* C15: filter_gravity_sources_by_influence returns only elements of its
\* sources, in order of non-increasing influence, at most max_sources of them,
\* none below the threshold or nearer than 1e-10, and the max_sources of
\* largest influence when more qualify.
C15_FilterByInfluence ==
    last.evaluated =>
        \A threshold \in ThresholdChoices, max_sources \in MaxSourceChoices :
            FilterContract(last.sim_before.gravity_module, last.plume_before,
                           ActiveAnchors(last.pearls_before, last.step),
                           threshold, max_sources,
                           FilterAnswer(threshold, max_sources))

\* two active anchors qualify, the second in list order with the larger
\* influence, and with max_sources = 1 the filter keeps just that one; the
\* higher threshold rules one of the two out
C15_Witness ==
    /\ last.evaluated
    /\ Len(FilterAnswer(1, 10)) = 2
    /\ FilterAnswer(1, 10)[1] = ActiveAnchors(last.pearls_before, last.step)[2]
    /\ FilterAnswer(1, 1) = << ActiveAnchors(last.pearls_before, last.step)[2] >>
    /\ Len(FilterAnswer(300000, 10)) = 1

\* the loom called on its own, and the literal two-anchor scenario on it
Loom == court.gravity_module

LiteralScenario ==
    /\ ret.call = "calculate_total_acceleration"
    /\ ret.args = << RestingPoint, AxisAnchors >>
    /\ Loom.gravity_constant = 100
    /\ ~Loom.enable_perturbations
    /\ ~Loom.enable_relativistic_corrections

\* C16 (as stated): with G = 0.1, perturbations and the relativistic correction
\* disabled, two anchors of mass 100 at (10,0,0) and (0,10,0) and a particle of
\* mass 1 at rest at the origin, calculate_total_acceleration returns
\* (-0.1, -0.1, 0).
C16_AccelerationAwayFromAnchors ==
    LiteralScenario => ret.raised = "" /\ ret.value = Vector3D(-100, -100, 0)

\* C16 (amended): in that scenario calculate_total_acceleration returns
\* (0.1, 0.1, 0): the particle is pulled towards both anchors.
C16_AccelerationTowardsAnchors ==
    LiteralScenario => ret.raised = "" /\ ret.value = Vector3D(100, 100, 0)

C16_Witness ==
    LiteralScenario /\ ret.value = Vector3D(100, 100, 0)

\* the distance between the two bodies of the last calculate_gravity_force call
ForceDistance == Magnitude(VSub(ret.args[2].position, ret.args[1].position))

\* C17: calculate_gravity_force returns the zero vector whenever the distance
\* between the two bodies is below the loom's minimum distance, for every mass
\* (zero and negative included) and with or without the relativistic correction;
\* at or above the minimum distance it does not divide by zero.
C17_NoForceBelowFloor ==
    ret.call = "calculate_gravity_force"
        => /\ ret.raised = ""
           /\ ForceDistance < Loom.gravity_force_min_distance => ret.value = ZeroVec

\* a negative mass pulled on by a zero mass, nearer than the configured floor,
\* with the relativistic correction on
C17_Witness ==
    /\ ret.call = "calculate_gravity_force"
    /\ Loom.enable_relativistic_corrections
    /\ Loom.gravity_force_min_distance = 500
    /\ ForceDistance = 300
    /\ ret.args[1].mass = 0
    /\ ret.args[2].mass < 0
    /\ ret.value = ZeroVec

\* C18: the boundary radius of every built domain is strictly positive, whatever
\* gravitational constant was configured before the build (zero and negative
\* values included) and whatever central mass the build accepted.
C18_BoundaryRadiusPositive ==
    court.galaxy_model # None
        => /\ court.galaxy_model.oort_cloud_radius > 0
           /\ court.simulation_module.boundary_effect.boundary_radius > 0

\* a domain just built with a non-positive configured gravitational constant
C18_Witness ==
    /\ ret.call = "build_galaxy"
    /\ ret.raised = ""
    /\ ret.before.constants.gravity_constant <= 0
    /\ court.galaxy_model.central_mass = ret.args[1]
    /\ court.galaxy_model.oort_cloud_radius > 0

\* C19: a capture step leaves the particle unmoved: in a step without boundary
\* collision in which the nearest anchor is captured, the particle's position and
\* velocity after the step equal its position and velocity before the step.
C19_CaptureLeavesParticleUnmoved ==
    (SteppedInside /\ last.raised = "" /\ last.captured # NoAnchor)
        => /\ Plume.position = last.plume_before.position
           /\ Plume.velocity = last.plume_before.velocity

\* the last step found the particle on or beyond a boundary of the given type
\* and returned
Collided(type) ==
    /\ last.step >= 0
    /\ last.raised = ""
    /\ last.sim_before.boundary_effect.type = type
    /\ check_collision(last.sim_before.boundary_effect, last.plume_before).collided

\* the particle position after check_collision's correction in the last step
Corrected == check_collision(last.sim_before.boundary_effect, last.plume_before).position

\* normalize(origin - p) * (0.6 * old speed)
EchoVelocity ==
    VMul(Normalize(VSub(ZeroVec, Corrected)),
         FMul(Magnitude(last.plume_before.velocity), 600))

\* C20: reflect boundary, reflection angle 0, inside a simulator step: on a
\* collision the new velocity is normalize(origin - p) * (0.6 * old speed) and the
\* new position is p + new velocity * dt, where p is the position after
\* check_collision's correction and dt is the configured time step size, the one
\* the step result reports, whatever the step index.
C20_ReflectAdvancesByTimeStep ==
    Collided("reflective")
        => /\ Plume.velocity = EchoVelocity
           /\ Plume.position = VAdd(Corrected, VMul(EchoVelocity, last.result.time_step))

\* the last step took the gravity branch and returned
GravityStep == last.step >= 0 /\ last.kind = "gravity" /\ last.step_raised = ""

\* the anchors the last step's filter kept, in the order it kept them
FilteredSources ==
    [ k \in DOMAIN last.filtered |->
        CHOOSE s \in Range(last.pearls_after) : s.id = last.filtered[k] ]

\* what integrate_step returned in the last step
Integrated ==
    integrate_step(last.sim_before.gravity_module, last.plume_before,
                   FilteredSources, last.sim_before.time_step)

\* the particle with an integrator result i advanced by a further velocity * dt
OnTop(i) ==
    [ last.plume_before EXCEPT
        !.velocity = i.velocity,
        !.position = VAdd(i.position, VMul(i.velocity, last.sim_before.time_step)) ]

\* the particle moved from where the step found it by the integrator's velocity
FromBefore(i) ==
    [ last.plume_before EXCEPT
        !.velocity = i.velocity,
        !.position = VAdd(last.plume_before.position,
                          VMul(i.velocity, last.sim_before.time_step)) ]

\* C21 (as stated): in a step with neither boundary collision nor capture the
\* velocity becomes the integrator's new velocity v' and the position becomes the
\* integrator's own position advanced by a further v' * dt.
C21_PositionOnTopOfIntegrator ==
    GravityStep => last.plume_after = OnTop(Integrated)

\* C21 (amended): in such a step the velocity becomes the integrator's new
\* velocity v' and the position becomes the position before the step advanced by
\* v' * dt; the integrator's own position is not used.
C21_PositionFromBeforeStep ==
    GravityStep => last.plume_after = FromBefore(Integrated)

\* a gravity step of a moving particle under at least one source, where the
\* integrator's position differs from the one the step found
C21_Witness ==
    /\ GravityStep
    /\ Len(last.filtered) > 0
    /\ Integrated.position # last.plume_before.position
    /\ last.plume_after = FromBefore(Integrated)
    /\ Plume = last.plume_after

\* C22: wrap boundary, reflection angle 0: whatever position and velocity made
\* the step a boundary step, the position the wrap produces lies strictly inside
\* the boundary, so check_collision is false at the start of the next step.
C22_WrapLandsInside ==
    Collided("infinite")
        => /\ Magnitude(Plume.position) < last.sim_before.boundary_effect.boundary_radius
           /\ ~check_collision(court.simulation_module.boundary_effect, Plume).collided

\* anchor k of the last step was dormant when the acceleration was computed
DormantAtGravity(k) == ~last.pearls_after[k].perturbations

\* C23: in every step, no anchor whose perturbations flag is false when the
\* acceleration is computed is among the sources handed to influence filtering,
\* to calculate_total_acceleration or to the integrator; dormant anchors are
\* still scanned by the nearest-anchor search (a nearest one inside its orbit
\* radius is the one captured), and a step never removes an anchor from the
\* collection.
C23_DormantAnchorsOutOfGravityOnly ==
    last.step >= 0 =>
        /\ last.evaluated =>
              \A k \in DOMAIN last.pearls_after :
                  DormantAtGravity(k) =>
                      /\ last.pearls_after[k].id \notin Range(last.active)
                      /\ last.pearls_after[k].id \notin Range(last.filtered)
        /\ SteppedInside =>
              \A k \in DOMAIN last.pearls_before :
                  ( /\ ~last.pearls_before[k].perturbations
                    /\ NearestBefore(k)
                    /\ DistanceBefore(k) < last.pearls_before[k].orbit_radius )
                      => last.captured = k
        /\ Ids(last.pearls_after) = Ids(last.pearls_before)
        /\ Ids(Pearls) = Ids(last.pearls_before)

\* a gravity step with two anchors in which the nearest anchor is dormant: the
\* scan found it, no source list holds it, the other anchor is a source
C23_Witness ==
    /\ last.evaluated
    /\ last.step_raised = ""
    /\ Len(last.pearls_after) = 2
    /\ Len(last.filtered) = 1
    /\ \E k \in DOMAIN last.pearls_after :
           /\ DormantAtGravity(k)
           /\ NearestBefore(k)
           /\ last.pearls_after[k].id \notin Range(last.active)
    /\ Ids(Pearls) = Ids(last.pearls_before)

\* the boundary the last step asked, its radius, and the particle it asked about
AskedBoundary == last.sim_before.boundary_effect
AskedRadius == AskedBoundary.boundary_radius
AskedPoint == last.plume_before

\* the particle as check_collision left it in the last step: only point.position
\* is assigned
Checked == [ AskedPoint EXCEPT !.position = check_collision(AskedBoundary, AskedPoint).position ]

\* q is p rescaled to magnitude 0.95 * radius along p's direction, to the
\* resolution of the fixed-point correction factor
RescaledTo(q, p, radius) ==
    /\ Abs(Magnitude(q) - FMul(950, radius)) <= (Magnitude(p) \div FP) + 2
    /\ Near(Normalize(q), Normalize(p))

\* C24: check_collision returns true exactly when |position| >= radius; it
\* rescales the position to magnitude 0.95 * radius along the same direction
\* exactly when |position| > radius and leaves it unchanged otherwise; it never
\* changes the velocity.
C24_CheckCollisionContract ==
    last.step >= 0 =>
        /\ check_collision(AskedBoundary, AskedPoint).collided
              <=> Magnitude(AskedPoint.position) >= AskedRadius
        /\ IF Magnitude(AskedPoint.position) > AskedRadius
           THEN /\ RescaledTo(Checked.position, AskedPoint.position, AskedRadius)
                /\ Checked.position # AskedPoint.position
           ELSE Checked.position = AskedPoint.position
        /\ Checked.velocity = AskedPoint.velocity

\* a particle exactly on the boundary: collision reported, nothing rescaled
C24_Witness ==
    /\ last.step >= 0
    /\ Magnitude(AskedPoint.position) = AskedRadius
    /\ check_collision(AskedBoundary, AskedPoint).collided
    /\ Checked = AskedPoint
    /\ last.kind = "boundary"

\* in the last step, free of boundary collision, anchor k was the nearest one,
\* already dormant, and the particle was within its orbit radius
Recaptured(k) ==
    /\ SteppedInside
    /\ NearestBefore(k)
    /\ ~last.pearls_before[k].perturbations
    /\ DistanceBefore(k) < last.pearls_before[k].orbit_radius

\* C25: when the nearest anchor is already dormant and the particle is within
\* its orbit radius, the anchor is captured again: it stays dormant, its
\* revival_rounds becomes the index of this step, and the step integrates no
\* gravity and revives no anchor; this holds at every such step, so also 60 and
\* more steps after the anchor went dormant.
C25_DormantAnchorRecaptured ==
    \A k \in DOMAIN last.pearls_before :
        Recaptured(k) =>
            /\ last.kind = "capture"
            /\ last.captured = k
            /\ ~Pearls[k].perturbations
            /\ Pearls[k].revival_rounds = last.step
            /\ ~last.evaluated
            /\ last.active = << >>
            /\ last.filtered = << >>
            /\ Plume.velocity = last.plume_before.velocity
            /\ \A j \in DOMAIN last.pearls_before :
                   ~last.pearls_before[j].perturbations => ~Pearls[j].perturbations

\* an anchor captured again 60 steps after it went dormant, the particle never
\* having left its orbit radius: a gravity step would have revived it
C25_Witness ==
    \E k \in DOMAIN last.pearls_before :
        /\ Recaptured(k)
        /\ dormantSince[k] >= 0
        /\ last.step >= dormantSince[k] + DormancySteps
        /\ last.pearls_before[k].revival_rounds = last.step - 1
        /\ Pearls[k].revival_rounds = last.step
        /\ ~Pearls[k].perturbations

\* the anchors as the run in progress (or the last run) found them
StartPearls ==
    IF ret.before = None \/ ret.before.galaxy_model = None THEN << >>
    ELSE ret.before.galaxy_model.stellar_pearls

\* a second or later run found anchor k dormant, captured at some step of an
\* earlier run, and the last step belongs to that run
DormantFromEarlierRun(k) ==
    /\ runs >= 2
    /\ ret.call = "run_simulation"
    /\ last.step >= 0
    /\ k \in DOMAIN StartPearls
    /\ ~StartPearls[k].perturbations

\* the last step revived anchor k
RevivedNow(k) == ~last.pearls_before[k].perturbations /\ Pearls[k].perturbations

\* C26 (as stated): step indices restart at 0 in every run while revival_rounds
\* persists: an anchor captured at step S of one run and still dormant when a
\* second run starts is revived in the second run only at a gravity step of
\* index t with t - S >= 60, so it is dormant during the second run's steps
\* 0..S+59.
C26_DormantUntilSixtyAfterOldStep ==
    \A k \in DOMAIN StartPearls :
        DormantFromEarlierRun(k) =>
            /\ RevivedNow(k) =>
                  /\ last.kind = "gravity"
                  /\ last.step - StartPearls[k].revival_rounds >= DormancySteps
            /\ last.step <= StartPearls[k].revival_rounds + DormancySteps - 1
                  => ~Pearls[k].perturbations

\* C26 (amended): such an anchor is revived in the second run only at a gravity
\* step of index t with t - S' >= 60, where S' is the revival_rounds it holds at
\* that step: S as long as the second run has not captured it again, the index
\* of its latest capture in the second run otherwise.  Until the second run
\* captures it again it is dormant during that run's steps 0..S+59.
C26_DormantUntilSixtyAfterLatestCapture ==
    \A k \in DOMAIN StartPearls :
        DormantFromEarlierRun(k) =>
            /\ RevivedNow(k) =>
                  /\ last.kind = "gravity"
                  /\ last.step - last.pearls_before[k].revival_rounds >= DormancySteps
            /\ runCapture[k] < 0 =>
                  /\ last.pearls_before[k].revival_rounds = StartPearls[k].revival_rounds
                  /\ last.step <= StartPearls[k].revival_rounds + DormancySteps - 1
                        => ~Pearls[k].perturbations

\* an anchor captured at step 0 of a first run that went on for 60 more steps
\* without reviving it, revived by the second run at its own step 60
C26_Witness ==
    \E k \in DOMAIN StartPearls :
        /\ DormantFromEarlierRun(k)
        /\ runs = 2
        /\ StartPearls[k].revival_rounds = 0
        /\ \E j \in DOMAIN StartPearls : StartPearls[j].revival_rounds >= DormancySteps
        /\ runCapture[k] < 0
        /\ last.step = DormancySteps
        /\ RevivedNow(k)

\* the last step, under the wrap boundary, found a particle at rest on or beyond
\* the radius
RestingWrap ==
    /\ Collided("infinite")
    /\ last.plume_before.velocity = ZeroVec

C28_GravityOnlyInsideBoundary ==
    last.step >= 0 =>
        /\ (last.evaluated \/ last.kind = "gravity") =>
              /\ Magnitude(last.plume_before.position) < AskedRadius
              /\ Checked.position = last.plume_before.position
        /\ Magnitude(last.plume_before.position) >= AskedRadius =>
              /\ last.kind = "boundary"
              /\ ~last.evaluated
              /\ last.captured = NoAnchor
              /\ last.filtered = << >>

\* gravity is evaluated for a particle in the outer tenth of the domain, after
\* the first step of a run
C28_Witness ==
    /\ GravityStep
    /\ last.evaluated
    /\ last.step >= 1
    /\ Magnitude(last.plume_before.position) < AskedRadius
    /\ Magnitude(last.plume_before.position) * 10 >= AskedRadius * 9

\* the gravity modules a courtyard holds: its own (used when an anchor is
\* added), the simulator's (used by every step) and the domain's
Engines(c) ==
    << c.gravity_module,
       IF c.simulation_module = None THEN None ELSE c.simulation_module.gravity_module,
       IF c.galaxy_model = None THEN None ELSE c.galaxy_model.gravity_module >>

\* the three constants a gravity module works with
EngineConstants(g) ==
    [ gravity_constant |-> g.gravity_constant,
      speed_of_light |-> g.speed_of_light,
      gravity_force_min_distance |-> g.gravity_force_min_distance ]

\* configured constants as a gravity module built from them holds them
BoundAtBuild(constants) ==
    [ gravity_constant |->
          IF constants.gravity_constant <= 0 THEN GRAVITY_CONSTANT
          ELSE constants.gravity_constant,
      speed_of_light |->
          IF constants.speed_of_light <= 0 THEN STARDUST_LIGHT_SPEED
          ELSE constants.speed_of_light,
      gravity_force_min_distance |->
          IF constants.gravity_force_min_distance <= 0 THEN GRAVITY_FORCE_MIN_DISTANCE
          ELSE constants.gravity_force_min_distance ]

\* the configured constants after set_constants with the arguments a
Reconfigured(constants, a) ==
    [ gravity_constant |->
          IF a[1] # << >> THEN a[1][1] ELSE constants.gravity_constant,
      speed_of_light |->
          IF a[2] # << >> THEN a[2][1] ELSE constants.speed_of_light,
      gravity_force_min_distance |->
          IF a[3] # << >> THEN a[3][1] ELSE constants.gravity_force_min_distance ]

\* C29: constants are bound at build time: the gravity module that build_galaxy
\* installs holds the constants configured when it was called, a non-positive
\* one replaced by its default, and the simulator and the domain of a
\* successful build use that module; every other call, set_constants included,
\* leaves the gravity modules in use as they were, while set_constants changes
\* the constants the status reports.
C29_ConstantsBoundAtBuild ==
    /\ ret.call = "build_galaxy" =>
          /\ EngineConstants(court.gravity_module) = BoundAtBuild(ret.before.constants)
          /\ ret.raised = "" =>
                /\ Engines(court)[2] = court.gravity_module
                /\ Engines(court)[3] = court.gravity_module
          /\ ret.raised # "" =>
                /\ Engines(court)[2] = Engines(ret.before)[2]
                /\ Engines(court)[3] = Engines(ret.before)[3]
    /\ ret.call \in { "set_constants", "add_stellar_pearl", "set_celestial_plume",
                     "set_time_step", "run_simulation" } =>
          Engines(court) = Engines(ret.before)
    /\ ret.call = "set_constants" =>
          /\ court.constants = Reconfigured(ret.before.constants, ret.args)
          /\ court.galaxy_model # None =>
                get_galaxy_status(court).constants = court.constants

\* set_constants on a built domain has just changed the reported gravitational
\* constant to one the simulator's gravity module does not work with
C29_Witness ==
    /\ ret.call = "set_constants"
    /\ court.simulation_module # None
    /\ get_galaxy_status(court).constants.gravity_constant
          # ret.before.constants.gravity_constant
    /\ EngineConstants(court.simulation_module.gravity_module)
          = BoundAtBuild(ret.before.constants)
    /\ EngineConstants(court.simulation_module.gravity_module)
          # BoundAtBuild(court.constants)

\* the last call was build_galaxy, it returned normally, and a domain had been
\* built before it
Rebuilt ==
    /\ ret.call = "build_galaxy"
    /\ ret.raised = ""
    /\ ret.before.galaxy_model # None

\* a domain is built and holds no particle
NoParticle(c) ==
    /\ c.galaxy_model # None
    /\ c.simulation_module # None
    /\ c.galaxy_model.celestial_plume = None

\* C30: a successful build_galaxy on an already built system replaces the
\* domain and the simulator: the status then counts 0 anchors and no particle
\* is set, the configured time step is the one held before and the new
\* simulator uses it; as long as no particle is set, only set_celestial_plume
\* sets one and run_simulation raises without stepping.
C30_RebuildStartsEmpty ==
    /\ Rebuilt =>
          /\ get_galaxy_status(court).stellar_pearls_count = 0
          /\ court.galaxy_model.stellar_pearls = << >>
          /\ NoParticle(court)
          /\ court.time_step = ret.before.time_step
          /\ get_galaxy_status(court).time_step = ret.before.time_step
          /\ court.simulation_module.time_step = ret.before.time_step
          /\ court.simulation_module.boundary_effect.boundary_radius
                = court.galaxy_model.oort_cloud_radius
          /\ court.galaxy_model.central_mass = ret.args[1]
    /\ (ret.call \in { "set_constants", "add_stellar_pearl", "set_time_step",
                       "run_simulation" } /\ NoParticle(ret.before)) =>
          NoParticle(court)
    /\ (ret.call = "run_simulation" /\ NoParticle(ret.before)) =>
          /\ ret.raised = "RuntimeError"
          /\ court = ret.before
          /\ pc = "idle"

\* build_galaxy has just succeeded on a domain that held an anchor and a
\* particle
C30_Witness ==
    /\ Rebuilt
    /\ Len(ret.before.galaxy_model.stellar_pearls) > 0
    /\ ret.before.galaxy_model.celestial_plume # None
    /\ NoParticle(court)
    /\ court.simulation_module.time_step = ret.before.time_step

====
